---- MODULE Spec2Model ----
(***************************************************************************)
(* A model of one_patch (src/src/one_patch/one_patch_itself.py): the        *)
(* OnePatch context manager and its shortcuts Ol, Oc and Ocl, run against a *)
(* small testing module.  Python objects are values [t, p]: t is the sort   *)
(* of object and p the path that identifies it.  Strings that the code      *)
(* splits on '.' are sequences of tokens in which "." is a token.           *)
(***************************************************************************)
EXTENDS Integers, Sequences, FiniteSets, TLC

VARIABLES
    pc,        \* where the caller is: new, constructed, body, exited, ...
    kind,      \* the class the caller instantiated: OnePatch, Ol, Oc, Ocl
    self,      \* the fields of the OnePatch object
    store,     \* attributes changed since import: <<owner, name>> -> value
    applied,   \* the locations patched, in the order they were patched
    undone,    \* indices into self._patchers, in the order they were reversed
    dto,       \* what __enter__ returned (args, c, exclusions)
    invoked,   \* outcome of op.c(*op.args) run by Oc/Ocl: none, ok, Exception, ...
    bodyExc,   \* the exception the with-body raised, or none
    raised,    \* the exception that reached the caller from the last call
    capturing, \* PatchLogger is active
    captureEnds, \* how many times PatchLogger.__exit__ ran
    bodyDeleted, \* root names the with-body deleted from the module
    bodyAssigned, \* <<stand-in, name>> attributes the with-body assigned
    calls,     \* the calls op.c(*op.args) made by Oc/Ocl.__enter__, in order
    akw,       \* an ArgsKwargs container a caller builds by hand
    adds,      \* the <<name, value>> pairs passed to akw.add_argument so far
    klass,     \* the attributes of the class OnePatch, which instances read
               \* until they set their own
    later      \* an engine constructed after `self`, with its arguments

\* the session, and the container built by hand
sessionVars == <<pc, kind, self, store, applied, undone, dto, invoked, bodyExc,
                 raised, capturing, captureEnds, bodyDeleted, bodyAssigned,
                 calls>>

argVars == <<akw, adds>>

\* the class, and a second engine
classVars == <<klass, later>>

vars == <<sessionVars, argVars, classVars>>

-----------------------------------------------------------------------------
(* Bounds of the model. *)

\* how many selectors the caller passes in include_set and exclude_set together
MaxSelectors == 2

\* how many times add_argument is called on the container built by hand
MaxAdds == 3

-----------------------------------------------------------------------------
(* Values. *)

V(t, p) == [t |-> t, p |-> p]

DOT == "."

\* a str object; its characters are tokens
S(tokens) == V("s", tokens)

\* the object declared at path p of the testing module; p = <<>> is the module
Real(p) == V("real", p)

\* a bound method object, as `FirstClass.success_class_method` evaluates to
Bound(p) == V("bound", p)

\* the autospec stand-in of the declaration at path p; p = <<>> is mocked_module
SpecMock(p) == V("spec", p)

\* a MagicMock made by patch.object(..., create=True) at location p
Fresh(p) == V("fresh", p)

\* a child a plain MagicMock fabricates on attribute access
Fab(p) == V("fab", p)

\* a MagicMock() made for an argument
ArgMock(name) == V("arg", <<name>>)

\* the FakeModule instance
Fake == V("fake", <<>>)

\* the bound `__init__` of a mock object, which getattr(mock, '__init__') gives
MockInit(p) == V("mockinit", p)

\* no such attribute (AttributeError, or the DEFAULT sentinel of patch)
Missing == V("missing", <<>>)

None == V("none", <<>>)

-----------------------------------------------------------------------------
(* Sequences and strings. *)

Last(s) == s[Len(s)]

Front(s) == SubSeq(s, 1, Len(s) - 1)

Range(s) == {s[i] : i \in DOMAIN s}

\* every ordering of a set: the order in which Python iterates a set of
\* strings and objects is not fixed
Orders(set) ==
    {f \in [1..Cardinality(set) -> set] :
        \A i, j \in 1..Cardinality(set) : i # j => f[i] # f[j]}

\* '.' in s
HasDot(s) == \E i \in DOMAIN s.p : s.p[i] = DOT

\* s.split('.') of a string whose identifiers are single tokens
RECURSIVE SplitTokens(_)
SplitTokens(toks) ==
    IF toks = <<>> THEN <<"">>
    ELSE IF Head(toks) = DOT THEN <<"">> \o SplitTokens(Tail(toks))
    ELSE IF Len(toks) = 1 THEN <<Head(toks)>>
    ELSE <<Head(toks)>> \o SplitTokens(Tail(Tail(toks)))

Split(s) == SplitTokens(s.p)

\* the dotted name of a path, as __qualname__ spells it
RECURSIVE JoinTokens(_)
JoinTokens(path) ==
    IF Len(path) <= 1 THEN path
    ELSE <<Head(path), DOT>> \o JoinTokens(Tail(path))

\* the str of one identifier
Ident(name) == S(<<name>>)

-----------------------------------------------------------------------------
(* The testing module: the declarations the tests patch around. *)

\* path -> sort of declaration
Declared ==
       (<<>> :> "module")
    @@ (<<"__name__">> :> "const")
    @@ (<<"logging">> :> "const")
    @@ (<<"logger">> :> "const")
    @@ (<<"MODULE_CONST">> :> "const")
    @@ (<<"SomeException">> :> "exc")
    @@ (<<"module_mock">> :> "mock")
    @@ (<<"failed_function">> :> "func")
    @@ (<<"success_function">> :> "func")
    @@ (<<"FirstClass">> :> "class")
    @@ (<<"FirstClass", "first_class_const">> :> "const")
    @@ (<<"FirstClass", "failed_method">> :> "method")
    @@ (<<"FirstClass", "success_method">> :> "method")
    @@ (<<"FirstClass", "success_class_method">> :> "classmethod")
    @@ (<<"FirstClass", "success_static_method">> :> "static")
    @@ (<<"FirstClass", "odd_method">> :> "method")
    @@ (<<"FirstClass", "odd_static">> :> "static")
    @@ (<<"FirstClass", "SecondClass">> :> "class")
    @@ (<<"FirstClass", "SecondClass", "second_class_const">> :> "const")
    @@ (<<"FirstClass", "SecondClass", "second_success_method">> :> "method")
    @@ (<<"InitCase">> :> "class")
    @@ (<<"InitCase", "__init__">> :> "method")
    @@ (<<"InitCase", "use_attrs_inited_in__init">> :> "method")

\* testing_module.__dict__, in definition order
ModuleDict ==
    <<"__name__", "logging", "logger", "MODULE_CONST", "SomeException",
      "module_mock", "failed_function", "success_function", "FirstClass",
      "InitCase">>

\* names the sessions can create in the module: builtins it looks up
Builtins == {"id", "type"}

RootNames == Range(ModuleDict) \cup Builtins

\* identifier.startswith('__')
Dunder == {"__name__", "__init__"}

\* the declared parameters, as inspect.signature(f).parameters lists them for
\* the function object
Params ==
       (<<"failed_function">> :> <<"a">>)
    @@ (<<"success_function">> :> <<>>)
    @@ (<<"FirstClass", "failed_method">> :> <<"self", "a">>)
    @@ (<<"FirstClass", "success_method">> :> <<"self", "method_argument">>)
    @@ (<<"FirstClass", "success_class_method">> :> <<"cls", "class_method_argument">>)
    @@ (<<"FirstClass", "success_static_method">> :> <<"a", "b">>)
    @@ (<<"FirstClass", "odd_method">> :> <<"this", "x">>)
    @@ (<<"FirstClass", "odd_static">> :> <<"self", "b">>)
    @@ (<<"FirstClass", "SecondClass", "second_success_method">> :> <<"self", "x">>)
    @@ (<<"InitCase", "__init__">> :> <<"self", "x", "y">>)
    @@ (<<"InitCase", "use_attrs_inited_in__init">> :> <<"self">>)

IsDeclared(p) == p \in DOMAIN Declared

KindOf(p) == IF IsDeclared(p) THEN Declared[p] ELSE "none"

FunctionKinds == {"func", "method", "classmethod", "static"}

CallableKinds == FunctionKinds \cup {"class", "exc", "mock"}

-----------------------------------------------------------------------------
(* What the interpreter and unittest.mock answer about a value. *)

\* isinstance(v, NonCallableMock): an observable stand-in of any sort
IsStandIn(v) ==
    \/ v.t \in {"spec", "fresh", "fab", "arg"}
    \/ v.t = "real" /\ KindOf(v.p) = "mock"

\* isinstance(v, Mock): autospec gives a non-callable declaration a
\* NonCallableMagicMock, which is no instance of Mock
IsMock(v) ==
    \/ v.t \in {"fresh", "fab", "arg"}
    \/ v.t = "real" /\ KindOf(v.p) = "mock"
    \/ /\ v.t = "spec"
       /\ v.p # <<>>
       /\ KindOf(v.p) \in CallableKinds \/ Last(v.p) \in Dunder

\* inspect.isclass(v) and issubclass(v, Exception)
IsExceptionClass(v) == v.t = "real" /\ KindOf(v.p) = "exc"

\* callable(v)
IsCallable(v) ==
    \/ v.t \in {"bound", "mockinit"}
    \/ v.t = "real" /\ KindOf(v.p) \in CallableKinds
    \/ IsMock(v)

\* getattr(v, '__qualname__', None)
Qualname(v) ==
    IF \/ v.t = "bound"
       \/ v.t = "real" /\ KindOf(v.p) \in (FunctionKinds \cup {"class", "exc"})
    THEN S(JoinTokens(v.p))
    ELSE None

\* stand-ins without the autospec restriction: every stand-in fabricates a
\* child for a name its declaration does not define
DefaultAttrFabricating(owner, name) ==
    CASE owner.t = "real" ->
           IF KindOf(owner.p) \in {"module", "class", "exc"}
              /\ IsDeclared(Append(owner.p, name))
           THEN IF KindOf(Append(owner.p, name)) = "classmethod"
                THEN Bound(Append(owner.p, name))
                ELSE Real(Append(owner.p, name))
           ELSE IF KindOf(owner.p) = "mock" THEN Fab(Append(owner.p, name))
           ELSE Missing
      [] owner.t = "spec" ->
           IF name = "__init__" THEN MockInit(owner.p)
           ELSE IF IsDeclared(Append(owner.p, name))
           THEN SpecMock(Append(owner.p, name))
           ELSE Fab(Append(owner.p, name))
      [] owner.t \in {"fresh", "fab", "arg"} ->
           IF name = "__init__" THEN MockInit(owner.p)
           ELSE Fab(Append(owner.p, name))
      [] owner.t = "fake" -> IF name = "tm" THEN Real(<<>>) ELSE Missing
      [] OTHER -> Missing

\* the attribute an object has when nothing was set on it
DefaultAttr(owner, name) ==
    CASE owner.t = "real" ->
           IF KindOf(owner.p) \in {"module", "class", "exc"}
              /\ IsDeclared(Append(owner.p, name))
           THEN IF KindOf(Append(owner.p, name)) = "classmethod"
                THEN Bound(Append(owner.p, name))
                ELSE Real(Append(owner.p, name))
           ELSE IF KindOf(owner.p) = "mock" THEN Fab(Append(owner.p, name))
           ELSE Missing
      [] owner.t = "spec" ->
           IF name = "__init__" THEN MockInit(owner.p)
           ELSE IF IsDeclared(Append(owner.p, name))
           THEN SpecMock(Append(owner.p, name))
           ELSE Missing
      [] owner.t \in {"fresh", "fab", "arg"} ->
           IF name = "__init__" THEN MockInit(owner.p)
           ELSE Fab(Append(owner.p, name))
      [] owner.t = "fake" -> IF name = "tm" THEN Real(<<>>) ELSE Missing
      [] OTHER -> Missing

\* getattr(owner, name); Missing stands for AttributeError
GetAttr(st, owner, name) ==
    IF <<owner, name>> \in DOMAIN st THEN st[<<owner, name>>]
    ELSE DefaultAttr(owner, name)

\* name in owner.__dict__: a declared member of a module or class, a function
\* child of an autospec stand-in, or anything set on the object
InDict(st, owner, name) ==
    IF <<owner, name>> \in DOMAIN st THEN st[<<owner, name>>] # Missing
    ELSE CASE owner.t = "real" -> DefaultAttr(owner, name) # Missing
           [] owner.t = "spec" ->
                KindOf(Append(owner.p, name)) \in FunctionKinds
           [] OTHER -> FALSE

SetAttr(st, owner, name, value) ==
    [loc \in DOMAIN st \cup {<<owner, name>>} |->
        IF loc = <<owner, name>> THEN value ELSE st[loc]]

\* OnePatch._getattr_by_path
RECURSIVE GetAttrByPath(_, _, _)
GetAttrByPath(st, obj, names) ==
    IF names = <<>> \/ obj = Missing THEN obj
    ELSE GetAttrByPath(st, GetAttr(st, obj, Head(names)), Tail(names))

-----------------------------------------------------------------------------
(* ArgsKwargs: a list with a table from argument name to index. *)

\* a new ArgsKwargs: the list, the table, and the attributes set on the
\* object itself
ArgsKwargs == [items |-> <<>>, _index_map |-> <<>>, __dict__ |-> <<>>]

\* ArgsKwargs.add_argument: the index is the size of the table before the
\* name is stored, the value goes to the end of the list
add_argument(a, argument_name, argument_value) ==
    [a EXCEPT
        !.items = Append(a.items, argument_value),
        !._index_map =
            [n \in DOMAIN a._index_map \cup {argument_name} |->
                IF n = argument_name THEN Cardinality(DOMAIN a._index_map)
                ELSE a._index_map[n]]]

\* inspect.signature(func).parameters.keys()
ParamsOf(func) ==
    CASE func.t = "bound" -> Tail(Params[func.p])
      [] func.t = "real" /\ func.p \in DOMAIN Params -> Params[func.p]
      [] func.t = "real" /\ KindOf(func.p) = "class" ->
           IF Append(func.p, "__init__") \in DOMAIN Params
           THEN Tail(Params[Append(func.p, "__init__")])
           ELSE <<>>
      [] OTHER -> <<"args", "kwargs">>

\* OnePatch.is_class_method: inspect.ismethod
is_class_method(class_method) == class_method.t \in {"bound", "mockinit"}

\* the class method itself, still bound to its class
FuncStillBound(func) == func

\* getattr(func, '__func__')
FuncOf(func) == IF func.t = "bound" THEN Real(func.p) ELSE V("func", func.p)

RECURSIVE AddFresh(_, _)
AddFresh(a, names) ==
    IF names = <<>> THEN a
    ELSE AddFresh(add_argument(a, Head(names), ArgMock(Head(names))), Tail(names))

RECURSIVE AddPlain(_, _, _)
AddPlain(a, names, patching_list) ==
    IF names = <<>> THEN a
    ELSE AddPlain(
            IF Len(patching_list) > 0 /\ Head(names) = "self"
            THEN add_argument(a, Head(names), Last(patching_list))
            ELSE add_argument(a, Head(names), ArgMock(Head(names))),
            Tail(names), patching_list)

\* a synthesis that gives a class method no slot for its class
GetArgsWithoutCls(func, patching_list) ==
    IF is_class_method(func)
    THEN [args |-> AddFresh(ArgsKwargs, ParamsOf(func)), c |-> FuncOf(func)]
    ELSE [args |-> AddPlain(ArgsKwargs, ParamsOf(func), patching_list),
          c |-> func]

\* OnePatch._get_args_and_callable
_get_args_and_callable(func, patching_list) ==
    IF is_class_method(func)
    THEN [args |-> AddFresh(
                     IF Len(patching_list) > 0
                     THEN add_argument(ArgsKwargs, "cls", Last(patching_list))
                     ELSE ArgsKwargs,
                     ParamsOf(func)),
          c |-> FuncOf(func)]
    ELSE [args |-> AddPlain(ArgsKwargs, ParamsOf(func), patching_list),
          c |-> func]

\* ArgsKwargs.__getattr__, reached for a name that is no attribute of the
\* list object: the slot the table gives for the name, Missing standing for
\* AttributeError
ArgsKwargs__getattr__(a, item) ==
    IF \E n \in DOMAIN a._index_map : n = item
    THEN a.items[a._index_map[item] + 1]
    ELSE Missing

\* getattr(args, name, default)
GetattrOr(a, item, default) ==
    IF ArgsKwargs__getattr__(a, item) = Missing THEN default
    ELSE ArgsKwargs__getattr__(a, item)

\* list(op) for the OnePatchDTO op: OnePatchDTO.__iter__
OnePatchDTO__iter__(op) ==
    <<op, op.c, op.args, GetattrOr(op.args, "self", GetattrOr(op.args, "cls", None))>>

-----------------------------------------------------------------------------
(* unittest.mock.patch.object, as the engine uses it. *)

\* The engine while __enter__ runs: the attribute store, self._patchers, the
\* log of patched locations, the exclusions table and the pending exception.
Machine(st, patchers, log) ==
    [store |-> st, patchers |-> patchers, applied |-> log,
     exclusions |-> <<>>, err |-> "none"]

Failed(m) == m.err # "none"

Raise(m, e) == [m EXCEPT !.err = e]

\* patch.object(target, attribute, new, create=...), its __enter__ and the
\* append to self._patchers.  new = Missing is the DEFAULT sentinel: patch
\* makes a MagicMock.  ph names the phase of __enter__ that patches.
PatchObject(m, target, attribute, new, create, ph) ==
    LET original == GetAttr(m.store, target, attribute)
        local == InDict(m.store, target, attribute)
        value == IF new = Missing THEN Fresh(Append(target.p, attribute)) ELSE new
    IN  IF ~create /\ original = Missing THEN Raise(m, "AttributeError")
        ELSE [m EXCEPT
                !.store = SetAttr(@, target, attribute, value),
                !.applied = Append(@, <<target, attribute>>),
                !.patchers = Append(@,
                    [target |-> target, attribute |-> attribute, new |-> value,
                     temp_original |-> original, is_local |-> local,
                     create |-> create, ph |-> ph, started |-> TRUE])]

\* a reversal that puts originals back but never deletes what a patch created
PatcherExitRestoreOnly(st, pt) ==
    IF pt.temp_original # Missing
    THEN [ok |-> TRUE,
          store |-> SetAttr(st, pt.target, pt.attribute, pt.temp_original)]
    ELSE [ok |-> TRUE, store |-> st]

\* _patch.__exit__ of a started patcher: ok is FALSE when delattr raises
\* AttributeError because the attribute is gone, and then nothing changes
PatcherExit(st, pt) ==
    IF pt.is_local /\ pt.temp_original # Missing
    THEN [ok |-> TRUE,
          store |-> SetAttr(st, pt.target, pt.attribute, pt.temp_original)]
    ELSE IF GetAttr(st, pt.target, pt.attribute) = Missing
    THEN [ok |-> FALSE, store |-> st]
    ELSE IF ~pt.create
    THEN [ok |-> TRUE,
          store |-> SetAttr(st, pt.target, pt.attribute, pt.temp_original)]
    ELSE [ok |-> TRUE, store |-> SetAttr(st, pt.target, pt.attribute, Missing)]

-----------------------------------------------------------------------------
(* The phases of OnePatch.__enter__. *)

HasKey(f, k) == \E x \in DOMAIN f : x = k

Put(f, k, v) == [x \in DOMAIN f \cup {k} |-> IF x = k THEN v ELSE f[x]]

\* OnePatch.get_patching_list: the stand-ins of the classes that enclose the
\* target, outermost first; Missing in it stands for AttributeError
RECURSIVE WalkChain(_, _, _)
WalkChain(st, current_object, names) ==
    IF names = <<>> THEN <<>>
    ELSE LET next == GetAttr(st, current_object, Head(names))
         IN  IF next = Missing THEN <<Missing>>
             ELSE <<next>> \o WalkChain(st, next, Tail(names))

get_patching_list(st, test_method, mock_module) ==
    WalkChain(st, mock_module, Front(Split(Qualname(test_method))))

\* patching_list[0]._mock_name
MockName(v) == IF v.t = "spec" /\ v.p # <<>> THEN Last(v.p) ELSE ""

\* the skip conditions without the one for the first chain stand-in
SkipIdentifierNoChain(slf, identifier, identifier_value, patching_list) ==
    \/ Ident(identifier) \in
          (slf._exclude_identifier_set
             \cup slf._exclude_first_path_identifier_set
             \cup slf._exclude_first_object_path_identifier_set)
    \/ identifier \in Dunder /\ Ident(identifier) \notin slf._include_set
    \/ identifier_value = slf._func
    \/ IsMock(identifier_value)
    \/ IsExceptionClass(identifier_value)

\* the skip conditions without the one for exception classes
SkipIdentifierNoExc(slf, identifier, identifier_value, patching_list) ==
    \/ Ident(identifier) \in
          (slf._exclude_identifier_set
             \cup slf._exclude_first_path_identifier_set
             \cup slf._exclude_first_object_path_identifier_set)
    \/ identifier \in Dunder /\ Ident(identifier) \notin slf._include_set
    \/ identifier_value = slf._func
    \/ IsMock(identifier_value)
    \/ Len(patching_list) > 0 /\ identifier = MockName(patching_list[1])

\* the skip conditions without the one for the target
SkipIdentifierNoFunc(slf, identifier, identifier_value, patching_list) ==
    \/ Ident(identifier) \in
          (slf._exclude_identifier_set
             \cup slf._exclude_first_path_identifier_set
             \cup slf._exclude_first_object_path_identifier_set)
    \/ identifier \in Dunder /\ Ident(identifier) \notin slf._include_set
    \/ IsMock(identifier_value)
    \/ IsExceptionClass(identifier_value)
    \/ Len(patching_list) > 0 /\ identifier = MockName(patching_list[1])

\* the skip conditions without the one for names that start with `__`
SkipIdentifierNoDunder(slf, identifier, identifier_value, patching_list) ==
    \/ Ident(identifier) \in
          (slf._exclude_identifier_set
             \cup slf._exclude_first_path_identifier_set
             \cup slf._exclude_first_object_path_identifier_set)
    \/ identifier_value = slf._func
    \/ IsMock(identifier_value)
    \/ IsExceptionClass(identifier_value)
    \/ Len(patching_list) > 0 /\ identifier = MockName(patching_list[1])

\* the skip conditions without the one for the excluded names
SkipIdentifierNoExclude(slf, identifier, identifier_value, patching_list) ==
    \/ identifier \in Dunder /\ Ident(identifier) \notin slf._include_set
    \/ identifier_value = slf._func
    \/ IsMock(identifier_value)
    \/ IsExceptionClass(identifier_value)
    \/ Len(patching_list) > 0 /\ identifier = MockName(patching_list[1])

\* the skip conditions of OnePatch._patch_module_identifiers, in its order
SkipIdentifier(slf, identifier, identifier_value, patching_list) ==
    \/ Ident(identifier) \in
          (slf._exclude_identifier_set
             \cup slf._exclude_first_path_identifier_set
             \cup slf._exclude_first_object_path_identifier_set)
    \/ identifier \in Dunder /\ Ident(identifier) \notin slf._include_set
    \/ identifier_value = slf._func
    \/ IsMock(identifier_value)
    \/ IsExceptionClass(identifier_value)
    \/ Len(patching_list) > 0 /\ identifier = MockName(patching_list[1])

\* OnePatch._patch_module_identifiers over the copy of the module __dict__
RECURSIVE _patch_module_identifiers(_, _, _, _, _, _)
_patch_module_identifiers(m, slf, items, testing_module, mocked_module, patching_list) ==
    IF items = <<>> \/ Failed(m) THEN m
    ELSE LET identifier == Head(items)[1]
             identifier_value == Head(items)[2]
             rest == Tail(items)
         IN  IF SkipIdentifier(slf, identifier, identifier_value, patching_list)
             THEN _patch_module_identifiers(m, slf, rest, testing_module,
                                            mocked_module, patching_list)
             ELSE IF GetAttr(m.store, mocked_module, identifier) = Missing
             THEN Raise(m, "AttributeError")
             ELSE _patch_module_identifiers(
                     PatchObject(m, testing_module, identifier,
                                 GetAttr(m.store, mocked_module, identifier),
                                 FALSE, "blanket"),
                     slf, rest, testing_module, mocked_module, patching_list)

\* testing_module.__dict__.copy().items()
DictItems(st, testing_module) ==
    [i \in DOMAIN ModuleDict |->
        <<ModuleDict[i], GetAttr(st, testing_module, ModuleDict[i])>>]

\* the include set with nothing taken out of it
IncludeAll(slf) == slf._include_set

\* self._include_set - exclude_set in OnePatch._patch_include_set
EffectiveInclude(slf) ==
    slf._include_set \
        (slf._exclude_identifier_set \cup slf._exclude_path_set
            \cup slf._exclude_object_path_set)

\* OnePatch._patch_include_set, the selectors taken in the given order
RECURSIVE _patch_include_set(_, _, _)
_patch_include_set(m, order, testing_module) ==
    IF order = <<>> \/ Failed(m) THEN m
    ELSE LET names == Split(Head(order))
             parent == GetAttrByPath(m.store, testing_module, Front(names))
             current == IF parent = Missing THEN Missing
                        ELSE GetAttr(m.store, parent, Last(names))
         IN  IF parent = Missing THEN Raise(m, "AttributeError")
             ELSE IF IsMock(current)
             THEN _patch_include_set(m, Tail(order), testing_module)
             ELSE _patch_include_set(
                     PatchObject(m, parent, Last(names), Missing, TRUE, "include"),
                     Tail(order), testing_module)

\* the name the final segment is installed under: `m__init__` for `__init__`
InstallName(exclude_identifier) ==
    IF exclude_identifier = "__init__" THEN "m__init__" ELSE exclude_identifier

\* the entry of the exclusions table for an excluded object
ExclusionEntries(exclusions, exclude_object, exclude_path, parent_object) ==
    IF IsCallable(exclude_object)
    THEN LET callable_exclusion_dto ==
                _get_args_and_callable(exclude_object, <<parent_object>>)
         IN  Put(Put(exclusions, exclude_object, callable_exclusion_dto),
                 exclude_path, callable_exclusion_dto)
    ELSE Put(exclusions, exclude_path, [o |-> exclude_object])

\* the inner loop of __enter__ over the identifiers of one excluded path;
\* idx counts from 1
RECURSIVE ExcludeWalk(_, _, _, _, _, _, _)
ExcludeWalk(m, exclude_path, exclude_object, exclude_identifiers, idx, parent_object, patching_list) ==
    IF idx > Len(exclude_identifiers) \/ Failed(m) THEN m
    ELSE LET exclude_identifier == exclude_identifiers[idx]
             current_object == GetAttr(m.store, parent_object, exclude_identifier)
             last == idx = Len(exclude_identifiers)
             recorded ==
                 IF last
                 THEN [m EXCEPT !.exclusions =
                         ExclusionEntries(@, exclude_object, exclude_path,
                                          parent_object)]
                 ELSE m
             patched ==
                 IF ~last
                 THEN PatchObject(m, parent_object, exclude_identifier,
                                  current_object, FALSE, "exclude")
                 ELSE PatchObject(recorded, parent_object,
                                  InstallName(exclude_identifier), exclude_object,
                                  exclude_identifier = "__init__", "exclude")
         IN  IF current_object = Missing THEN Raise(m, "AttributeError")
             ELSE IF Len(patching_list) >= idx /\ patching_list[idx] = current_object
             THEN ExcludeWalk(m, exclude_path, exclude_object, exclude_identifiers,
                              idx + 1, current_object, patching_list)
             ELSE ExcludeWalk(patched, exclude_path, exclude_object,
                              exclude_identifiers, idx + 1, current_object,
                              patching_list)

\* the loop of __enter__ over all_exclude_set, taken in the given order
RECURSIVE ExcludeAll(_, _, _, _, _)
ExcludeAll(m, order, testing_module, mocked_module, patching_list) ==
    IF order = <<>> \/ Failed(m) THEN m
    ELSE LET exclude_path == Head(order)
             exclude_identifiers == Split(exclude_path)
             exclude_object ==
                 GetAttrByPath(m.store, testing_module, exclude_identifiers)
         IN  IF exclude_object = Missing THEN Raise(m, "AttributeError")
             ELSE IF Len(exclude_identifiers) < 2 THEN Raise(m, "ValueError")
             ELSE IF Len(patching_list) = 0
             THEN ExcludeAll(m, Tail(order), testing_module, mocked_module,
                             patching_list)
             ELSE ExcludeAll(
                     ExcludeWalk(m, exclude_path, exclude_object,
                                 exclude_identifiers, 1, mocked_module,
                                 patching_list),
                     Tail(order), testing_module, mocked_module, patching_list)

\* OnePatch.__enter__: the machine after it; its dto is the OnePatchDTO
OnePatchEnter(slf, st, log, incOrder, excOrder) ==
    LET testing_module == Real(<<>>)
        m0 == PatchObject(Machine(st, slf._patchers, log), Fake, "tm",
                          SpecMock(<<>>), FALSE, "root")
        mocked_module == SpecMock(<<>>)
        patching_list == get_patching_list(m0.store, slf._func, mocked_module)
        args_kwargs_dto == _get_args_and_callable(slf._func, patching_list)
        m1 == _patch_module_identifiers(m0, slf, DictItems(m0.store, testing_module),
                                        testing_module, mocked_module, patching_list)
        m2 == _patch_include_set(m1, incOrder, testing_module)
        m3 == ExcludeAll(m2, excOrder, testing_module, mocked_module, patching_list)
    IN  IF Missing \in Range(patching_list)
        THEN [machine |-> Raise(m0, "AttributeError"), dto |-> None]
        ELSE [machine |-> m3,
              dto |-> IF Failed(m3) THEN None
                      ELSE [args |-> args_kwargs_dto.args, c |-> args_kwargs_dto.c,
                            exclusions |-> m3.exclusions]]

-----------------------------------------------------------------------------
(* Construction. *)

\* the class attributes of OnePatch, which an instance reads until it sets
\* its own
ClassDefaults ==
    [_func |-> None,
     _include_set |-> {Ident("id")},
     _exclude_set |-> {},
     _exclude_identifier_set |-> {},
     _exclude_path_set |-> {},
     _exclude_first_path_identifier_set |-> {},
     _exclude_object_set |-> {},
     _exclude_object_path_set |-> {},
     _exclude_first_object_path_identifier_set |-> {},
     _patchers |-> <<>>,
     _patch_logger_manager |-> FALSE]

\* isinstance(x, str)
IsStr(x) == x.t = "s"

\* OnePatch._init_exclusions; it is run only when every excluded object has a
\* qualified name
_init_exclusions(slf) ==
    LET exclude_path_set ==
            {x \in slf._exclude_set : IsStr(x) /\ HasDot(x)}
        exclude_first_path_identifier_set ==
            {Ident(Split(x)[1]) : x \in exclude_path_set}
        exclude_identifier_set ==
            {x \in slf._exclude_set : IsStr(x) /\ ~HasDot(x)}
        exclude_object_set == {x \in slf._exclude_set : ~IsStr(x)}
        object_set == slf._exclude_object_set \cup exclude_object_set
        object_path_set == {Qualname(x) : x \in object_set}
    IN  [slf EXCEPT
            !._exclude_path_set = @ \cup exclude_path_set,
            !._exclude_identifier_set = @ \cup exclude_identifier_set,
            !._exclude_object_set = object_set,
            !._exclude_object_path_set = object_path_set,
            !._exclude_first_path_identifier_set =
                @ \cup exclude_first_path_identifier_set,
            !._exclude_first_object_path_identifier_set =
                @ \cup {Ident(Split(x)[1]) : x \in object_path_set}]

\* OnePatch._get_exclude_object_path raises ValueError for such an object
LacksQualname(exclude_object) == Qualname(exclude_object) = None

\* a constructor that passes over excluded objects without a qualified name
\* instead of raising
ConstructLenient(k, func, include_set, exclude_set) ==
    LET exclude_set_ ==
            IF k = "Ocl"
            THEN {Ident("logging"), Ident("logger")} \cup exclude_set
            ELSE exclude_set
        s1 == [klass EXCEPT !._func = func]
        s2 == IF include_set # {}
              THEN [s1 EXCEPT !._include_set = @ \cup include_set]
              ELSE s1
        s3 == IF exclude_set_ # {}
              THEN [s2 EXCEPT !._exclude_set = @ \cup exclude_set_]
              ELSE s2
        named == {x \in s3._exclude_set : IsStr(x) \/ ~LacksQualname(x)}
    IN  IF exclude_set_ = {} THEN [obj |-> s3, err |-> "none", cls |-> klass]
        ELSE [obj |-> [_init_exclusions([s3 EXCEPT !._exclude_set = named])
                          EXCEPT !._exclude_set = s3._exclude_set],
              err |-> "none", cls |-> klass]

\* a constructor that updates the sets in place (`|=`): the sets an instance
\* has not set for itself are those of the class, so the class gets the
\* arguments of every construction
ConstructInPlace(k, func, include_set, exclude_set) ==
    LET exclude_set_ ==
            IF k = "Ocl"
            THEN {Ident("logging"), Ident("logger")} \cup exclude_set
            ELSE exclude_set
        s1 == [klass EXCEPT !._func = func]
        s2 == IF include_set # {}
              THEN [s1 EXCEPT !._include_set = @ \cup include_set]
              ELSE s1
        s3 == IF exclude_set_ # {}
              THEN [s2 EXCEPT !._exclude_set = @ \cup exclude_set_]
              ELSE s2
        bad == \E x \in s3._exclude_set : ~IsStr(x) /\ LacksQualname(x)
        obj == IF exclude_set_ = {} \/ bad THEN s3 ELSE _init_exclusions(s3)
    IN  [obj |-> obj,
         err |-> IF exclude_set_ # {} /\ bad THEN "ValueError" ELSE "none",
         cls |-> [obj EXCEPT !._func = klass._func]]

\* OnePatch.__init__; Ocl.__init__ first adds `logging` and `logger` to the
\* exclude set.  Every assignment is to an attribute of the instance, with a
\* set made by `|`, so the class is left as it is.
Construct(k, func, include_set, exclude_set) ==
    LET exclude_set_ ==
            IF k = "Ocl"
            THEN {Ident("logging"), Ident("logger")} \cup exclude_set
            ELSE exclude_set
        s1 == [klass EXCEPT !._func = func]
        s2 == IF include_set # {}
              THEN [s1 EXCEPT !._include_set = @ \cup include_set]
              ELSE s1
        s3 == IF exclude_set_ # {}
              THEN [s2 EXCEPT !._exclude_set = @ \cup exclude_set_]
              ELSE s2
        bad == \E x \in s3._exclude_set : ~IsStr(x) /\ LacksQualname(x)
    IN  IF exclude_set_ = {} THEN [obj |-> s3, err |-> "none", cls |-> klass]
        ELSE IF bad THEN [obj |-> s3, err |-> "ValueError", cls |-> klass]
        ELSE [obj |-> _init_exclusions(s3), err |-> "none", cls |-> klass]

-----------------------------------------------------------------------------
(* Teardown. *)

\* what _patch.__exit__ does on a patcher that was already exited: CPython
\* 3.8 returns, later versions raise AttributeError (the patcher has dropped
\* its is_local attribute)
StoppedExit == {"return", "raise"}

\* the same loop over self._patchers in the order of application: step i
\* takes the patcher at Len(patchers) - i + 1
RECURSIVE ExitFromApplied(_, _, _, _, _)
ExitFromApplied(i, st, patchers, log, stopped) ==
    IF i = 0 THEN [store |-> st, patchers |-> patchers, undone |-> log,
                   err |-> "none"]
    ELSE LET j == Len(patchers) - i + 1
         IN  IF ~patchers[j].started
             THEN IF stopped = "raise"
                  THEN [store |-> st, patchers |-> patchers, undone |-> log,
                        err |-> "AttributeError"]
                  ELSE ExitFromApplied(i - 1, st, patchers, log, stopped)
             ELSE LET r == PatcherExit(st, patchers[j])
                  IN  IF r.ok
                      THEN ExitFromApplied(i - 1, r.store,
                                           [patchers EXCEPT ![j].started = FALSE],
                                           Append(log, j), stopped)
                      ELSE [store |-> st, patchers |-> patchers, undone |-> log,
                            err |-> "AttributeError"]

\* the loop of OnePatch.__exit__ over reversed(self._patchers), from index i
\* down; it ends at the first patcher whose __exit__ raises
RECURSIVE ExitFrom(_, _, _, _, _)
ExitFrom(i, st, patchers, log, stopped) ==
    IF i = 0 THEN [store |-> st, patchers |-> patchers, undone |-> log,
                   err |-> "none"]
    ELSE IF ~patchers[i].started
    THEN IF stopped = "raise"
         THEN [store |-> st, patchers |-> patchers, undone |-> log,
               err |-> "AttributeError"]
         ELSE ExitFrom(i - 1, st, patchers, log, stopped)
    ELSE LET r == PatcherExit(st, patchers[i])
         IN  IF r.ok
             THEN ExitFrom(i - 1, r.store,
                           [patchers EXCEPT ![i].started = FALSE],
                           Append(log, i), stopped)
             ELSE [store |-> st, patchers |-> patchers, undone |-> log,
                   err |-> "AttributeError"]

\* OnePatch.__exit__
OnePatchExit(slf, st, log, stopped) ==
    ExitFrom(Len(slf._patchers), st, slf._patchers, log, stopped)

-----------------------------------------------------------------------------
(* What the caller passes. *)

Targets ==
    {Real(<<"success_function">>),
     Real(<<"FirstClass", "success_method">>),
     Bound(<<"FirstClass", "success_class_method">>),
     Real(<<"FirstClass", "SecondClass", "second_success_method">>)}

\* further targets, given to OnePatch only: a static method, an instance
\* method whose first parameter is not called `self`, and a static method
\* that has a parameter called `self`
MoreTargets ==
    {Real(<<"FirstClass", "success_static_method">>),
     Real(<<"FirstClass", "odd_method">>),
     Real(<<"FirstClass", "odd_static">>)}

Kinds == {"OnePatch", "Ol", "Oc", "Ocl"}

IncludeUniverse ==
    {Ident("MODULE_CONST"), Ident("SomeException"), Ident("FirstClass"),
     Ident("__name__"), Ident("type"),
     S(<<"FirstClass", DOT, "failed_method">>)}

ExcludeUniverse ==
    {Ident("MODULE_CONST"), Ident("id"),
     S(<<"FirstClass", DOT, "failed_method">>),
     Real(<<"FirstClass", "failed_method">>),
     S(<<"FirstClass", DOT, "SecondClass", DOT, "second_class_const">>),
     S(<<"InitCase", DOT, "__init__">>),
     S(<<"FirstClass", DOT, "nope">>),
     Real(<<"failed_function">>),
     Real(<<"logger">>)}

\* how op.c(*op.args) can end: it returns, raises an Exception, or raises a
\* BaseException that is no Exception (KeyboardInterrupt, SystemExit)
Outcomes == {"ok", "Exception", "BaseException"}

ExceptionOf(outcome) ==
    IF outcome = "Exception" THEN "TypeError" ELSE "KeyboardInterrupt"

\* how the with-body can end: normally, or raising
BodyEnds == {"none", "BodyError"}

-----------------------------------------------------------------------------
(* The state machine. *)

Init ==
    /\ pc = "new"
    /\ kind = "OnePatch"
    /\ self = ClassDefaults
    /\ store = (<<Fake, "tm">> :> Real(<<>>))
    /\ applied = <<>>
    /\ undone = <<>>
    /\ dto = None
    /\ invoked = "none"
    /\ bodyExc = "none"
    /\ raised = "none"
    /\ capturing = FALSE
    /\ captureEnds = 0
    /\ bodyDeleted = {}
    /\ bodyAssigned = {}
    /\ calls = <<>>
    /\ akw = ArgsKwargs
    /\ adds = <<>>
    /\ klass = ClassDefaults
    /\ later = None

\* k(func, include_set=..., exclude_set=...)
New(k, func, include_set, exclude_set) ==
    /\ pc = "new"
    /\ UNCHANGED <<argVars, later>>
    /\ LET r == Construct(k, func, include_set, exclude_set)
       IN  /\ self' = r.obj
           /\ klass' = r.cls
           /\ raised' = r.err
           /\ pc' = IF r.err = "none" THEN "constructed" ELSE "ctor_raised"
    /\ kind' = k
    /\ UNCHANGED <<store, applied, undone, dto, invoked, bodyExc, capturing,
                   captureEnds, bodyDeleted, bodyAssigned, calls>>

AllExclude(slf) == slf._exclude_path_set \cup slf._exclude_object_path_set

\* the state after the isolation r, which raised or returned a dto
Isolated(r) ==
    /\ self' = [self EXCEPT !._patchers = r.machine.patchers]
    /\ store' = r.machine.store
    /\ applied' = r.machine.applied
    /\ dto' = r.dto

\* what op.c(*op.args) returns when it returns
Result(c) == V("result", c.p)

\* a bundle that has the result and nothing of the isolation
ResultOnly(result, op) ==
    [r |-> result, args |-> ArgsKwargs, c |-> None, exclusions |-> <<>>]

\* ResultOnePatchDTO(r=result, args=op.args, c=op.c, exclusions=op.exclusions)
ResultOnePatchDTO(result, op) ==
    [r |-> result, args |-> op.args, c |-> op.c, exclusions |-> op.exclusions]

\* list(oc) for the ResultOnePatchDTO oc: ResultOnePatchDTO.__iter__
ResultOnePatchDTO__iter__(oc) == <<oc.r>> \o OnePatchDTO__iter__(oc)

\* the call op.c(*op.args) after the isolation r: the bundle it is made on,
\* and the patchers that are started while it runs
Call(r) ==
    [op |-> r.dto,
     started |-> {i \in DOMAIN r.machine.patchers : r.machine.patchers[i].started}]

\* OnePatch.__enter__ (also Op's)
EnterOnePatch ==
    /\ pc = "constructed"
    /\ UNCHANGED <<argVars, classVars>>
    /\ kind = "OnePatch"
    /\ \E incOrder \in Orders(EffectiveInclude(self)),
          excOrder \in Orders(AllExclude(self)) :
        \E r \in {OnePatchEnter(self, store, applied, incOrder, excOrder)} :
            /\ Isolated(r)
            /\ raised' = r.machine.err
            /\ pc' = IF Failed(r.machine) THEN "enter_raised" ELSE "body"
    /\ UNCHANGED <<kind, undone, invoked, bodyExc, capturing, captureEnds,
                   bodyDeleted, bodyAssigned, calls>>

\* Ol.__enter__: the logger is looked up and captured, then the isolation
EnterOl ==
    /\ pc = "constructed"
    /\ UNCHANGED <<argVars, classVars>>
    /\ kind = "Ol"
    /\ IF GetAttr(store, Real(<<>>), "logger") = Missing
       THEN /\ pc' = "enter_raised"
            /\ raised' = "AttributeError"
            /\ UNCHANGED <<self, store, applied, dto, capturing>>
       ELSE \E incOrder \in Orders(EffectiveInclude(self)),
               excOrder \in Orders(AllExclude(self)) :
            \E r \in {OnePatchEnter(self, store, applied, incOrder, excOrder)} :
                /\ self' = [self EXCEPT !._patchers = r.machine.patchers,
                                        !._patch_logger_manager = TRUE]
                /\ store' = r.machine.store
                /\ applied' = r.machine.applied
                /\ dto' = r.dto
                /\ capturing' = TRUE
                /\ raised' = r.machine.err
                /\ pc' = IF Failed(r.machine) THEN "enter_raised" ELSE "body"
    /\ UNCHANGED <<kind, undone, invoked, bodyExc, captureEnds, bodyDeleted, bodyAssigned, calls>>

\* Oc.__enter__: the isolation, then op.c(*op.args); on Exception
\* self.__exit__(None, None, None) and the exception is raised again
EnterOc ==
    /\ pc = "constructed"
    /\ UNCHANGED <<argVars, classVars>>
    /\ kind = "Oc"
    /\ \E incOrder \in Orders(EffectiveInclude(self)),
          excOrder \in Orders(AllExclude(self)), outcome \in Outcomes :
        \E r \in {OnePatchEnter(self, store, applied, incOrder, excOrder)} :
        \E x \in {IF Failed(r.machine) THEN None
                   ELSE OnePatchExit([self EXCEPT !._patchers = r.machine.patchers],
                                     r.machine.store, undone, "raise")} :
        LET entered == [self EXCEPT !._patchers = r.machine.patchers]
        IN  IF Failed(r.machine)
            THEN /\ Isolated(r)
                 /\ raised' = r.machine.err
                 /\ pc' = "enter_raised"
                 /\ UNCHANGED <<invoked, undone, calls>>
            ELSE IF outcome = "Exception"
            THEN /\ self' = [entered EXCEPT !._patchers = x.patchers]
                 /\ store' = x.store
                 /\ undone' = x.undone
                 /\ applied' = r.machine.applied
                 /\ dto' = None
                 /\ invoked' = outcome
                 /\ calls' = Append(calls, Call(r))
                 /\ raised' = IF x.err # "none" THEN x.err
                              ELSE ExceptionOf(outcome)
                 /\ pc' = "enter_raised"
            ELSE /\ self' = entered
                 /\ store' = r.machine.store
                 /\ applied' = r.machine.applied
                 /\ dto' = IF outcome = "ok"
                         THEN ResultOnePatchDTO(Result(r.dto.c), r.dto)
                         ELSE None
                 /\ invoked' = outcome
                 /\ calls' = Append(calls, Call(r))
                 /\ raised' = IF outcome = "ok" THEN "none"
                              ELSE ExceptionOf(outcome)
                 /\ pc' = IF outcome = "ok" THEN "body" ELSE "enter_raised"
                 /\ UNCHANGED undone
    /\ UNCHANGED <<kind, bodyExc, capturing, captureEnds, bodyDeleted, bodyAssigned>>

\* Ocl.__enter__: the isolation, the logger lookup and capture, then
\* op.c(*op.args); on Exception self.__exit__(None, None, None), which ends
\* the capture and reverses, and the exception is raised again
EnterOcl ==
    /\ pc = "constructed"
    /\ UNCHANGED <<argVars, classVars>>
    /\ kind = "Ocl"
    /\ \E incOrder \in Orders(EffectiveInclude(self)),
          excOrder \in Orders(AllExclude(self)), outcome \in Outcomes :
        \E r \in {OnePatchEnter(self, store, applied, incOrder, excOrder)} :
        \E x \in {IF Failed(r.machine) THEN None
                   ELSE OnePatchExit([self EXCEPT !._patchers = r.machine.patchers],
                                     r.machine.store, undone, "raise")} :
        LET entered == [self EXCEPT !._patchers = r.machine.patchers]
        IN  IF Failed(r.machine)
            THEN /\ Isolated(r)
                 /\ raised' = r.machine.err
                 /\ pc' = "enter_raised"
                 /\ UNCHANGED <<invoked, undone, capturing, captureEnds, calls>>
            ELSE IF GetAttr(r.machine.store, Real(<<>>), "logger") = Missing
            THEN /\ Isolated(r)
                 /\ raised' = "AttributeError"
                 /\ pc' = "enter_raised"
                 /\ UNCHANGED <<invoked, undone, capturing, captureEnds, calls>>
            ELSE IF outcome = "Exception"
            THEN /\ self' = [entered EXCEPT !._patchers = x.patchers,
                                            !._patch_logger_manager = FALSE]
                 /\ store' = x.store
                 /\ undone' = x.undone
                 /\ applied' = r.machine.applied
                 /\ dto' = None
                 /\ invoked' = outcome
                 /\ calls' = Append(calls, Call(r))
                 /\ capturing' = FALSE
                 /\ captureEnds' = captureEnds + 1
                 /\ raised' = IF x.err # "none" THEN x.err
                              ELSE ExceptionOf(outcome)
                 /\ pc' = "enter_raised"
            ELSE /\ self' = [entered EXCEPT !._patch_logger_manager = TRUE]
                 /\ store' = r.machine.store
                 /\ applied' = r.machine.applied
                 /\ dto' = IF outcome = "ok"
                         THEN ResultOnePatchDTO(Result(r.dto.c), r.dto)
                         ELSE None
                 /\ invoked' = outcome
                 /\ calls' = Append(calls, Call(r))
                 /\ capturing' = TRUE
                 /\ raised' = IF outcome = "ok" THEN "none"
                              ELSE ExceptionOf(outcome)
                 /\ pc' = IF outcome = "ok" THEN "body" ELSE "enter_raised"
                 /\ UNCHANGED <<undone, captureEnds>>
    /\ UNCHANGED <<kind, bodyExc, bodyDeleted, bodyAssigned>>

\* the with-body deletes from the module a name the session created there
\* (`del tm.id`)
BodyDelete(name) ==
    /\ pc = "body"
    /\ UNCHANGED <<argVars, classVars>>
    /\ GetAttr(store, Real(<<>>), name) # Missing
    /\ store' = SetAttr(store, Real(<<>>), name, Missing)
    /\ bodyDeleted' = bodyDeleted \cup {name}
    /\ UNCHANGED <<pc, kind, self, applied, undone, dto, invoked, bodyExc,
                   raised, capturing, captureEnds, bodyAssigned, calls>>

\* __exit__ as the class of the object defines it: Ol and Ocl first end the
\* log capture when they hold one, then OnePatch.__exit__ reverses; nothing
\* is returned, so the result is None
DoExit(stopped, after) ==
    \E x \in {OnePatchExit(self, store, undone, stopped)} :
    LET logging == kind \in {"Ol", "Ocl"} /\ self._patch_logger_manager
    IN  /\ self' = [self EXCEPT !._patchers = x.patchers,
                                !._patch_logger_manager =
                                    IF kind \in {"Ol", "Ocl"} THEN FALSE ELSE @]
        /\ store' = x.store
        /\ undone' = x.undone
        /\ capturing' = IF logging THEN FALSE ELSE capturing
        /\ captureEnds' = IF logging THEN captureEnds + 1 ELSE captureEnds
        /\ raised' = IF x.err # "none" THEN x.err ELSE after

\* the with statement ends: the body returned or raised e, and __exit__ runs
\* with it; __exit__ returns None, so e propagates unless __exit__ raises
ExitWith(e) ==
    /\ pc = "body"
    /\ UNCHANGED <<argVars, classVars>>
    /\ DoExit("raise", e)
    /\ bodyExc' = e
    /\ pc' = "exited"
    /\ UNCHANGED <<kind, applied, dto, invoked, bodyDeleted, bodyAssigned, calls>>

\* the caller calls __exit__(None, None, None) once more
ExitAgain ==
    /\ pc = "exited"
    /\ UNCHANGED <<argVars, classVars>>
    /\ \E stopped \in StoppedExit : DoExit(stopped, "none")
    /\ pc' = "exited2"
    /\ UNCHANGED <<kind, applied, dto, invoked, bodyExc, bodyDeleted, bodyAssigned, calls>>

\* the sets the caller can pass as include_set and exclude_set
Selections ==
    {sel \in (SUBSET IncludeUniverse) \X (SUBSET ExcludeUniverse) :
        Cardinality(sel[1]) + Cardinality(sel[2]) <= MaxSelectors}

Next ==
    \/ /\ pc = "new"
       /\ \E k \in Kinds, func \in Targets, sel \in Selections :
            New(k, func, sel[1], sel[2])
    \/ /\ pc = "new"
       /\ \E func \in MoreTargets, sel \in Selections :
            New("OnePatch", func, sel[1], sel[2])
    \/ EnterOnePatch
    \/ EnterOl
    \/ EnterOc
    \/ EnterOcl
    \/ /\ pc = "body"
       /\ \E name \in Builtins : BodyDelete(name)
    \/ /\ pc = "body"
       /\ \E e \in BodyEnds : ExitWith(e)
    \/ ExitAgain

Spec == Init /\ [][Next]_vars

-----------------------------------------------------------------------------
(* A caller that builds an ArgsKwargs by hand. *)

\* the keys of a table
ArgumentNamesOf(f) == {n \in DOMAIN f : TRUE}

\* attributes every list has, among them
ListAttributes == {"count", "index"}

\* dir(self) of an ArgsKwargs
Dir(a) ==
    ListAttributes \cup {"_index_map", "add_argument"}
        \cup ArgumentNamesOf(a.__dict__)

\* `a.item`: an attribute of the object or of its class is found first, and
\* ArgsKwargs.__getattr__ is asked only when there is none
ReadAttr(a, item) ==
    IF HasKey(a.__dict__, item) THEN a.__dict__[item]
    ELSE IF item \in ListAttributes THEN V("builtin", <<"list", item>>)
    ELSE ArgsKwargs__getattr__(a, item)

\* `a.key = value`: ArgsKwargs.__setattr__; err is the exception it raises
ArgsKwargs__setattr__(a, key, value) ==
    IF key \notin Dir(a)
    THEN IF HasKey(a._index_map, key)
         THEN [a |-> [a EXCEPT !.items[a._index_map[key] + 1] = value],
               err |-> "none"]
         ELSE [a |-> a, err |-> "KeyError"]
    ELSE [a |-> [a EXCEPT !.__dict__ = Put(a.__dict__, key, value)],
          err |-> "none"]

\* the names and the values the caller registers
ArgumentNames == {"self", "x", "count"}

ArgumentValues == {ArgMock("v1"), ArgMock("v2")}

\* the names the caller reads and writes: those it may register, and one it
\* never registers
AccessNames == ArgumentNames \cup {"foo"}

\* akw.add_argument(argument_name, argument_value)
AddArgument(argument_name, argument_value) ==
    /\ Len(adds) < MaxAdds
    /\ akw' = add_argument(akw, argument_name, argument_value)
    /\ adds' = Append(adds, <<argument_name, argument_value>>)
    /\ UNCHANGED <<sessionVars, classVars>>

NextArgs ==
    \E argument_name \in ArgumentNames, argument_value \in ArgumentValues :
        AddArgument(argument_name, argument_value)

SpecArgs == Init /\ [][NextArgs]_vars

-----------------------------------------------------------------------------
(* Sessions of OnePatch with exclusions, whose body works on the stand-ins. *)

\* how many selectors the caller passes in exclude_set in these sessions
MaxExcluded == 2

\* how many attributes the with-body assigns
MaxAssigned == 1

ExcludedTargets ==
    {Real(<<"success_function">>),
     Real(<<"FirstClass", "success_method">>),
     Real(<<"FirstClass", "SecondClass", "second_success_method">>),
     Real(<<"InitCase", "use_attrs_inited_in__init">>)}

\* bare names of the module and of a class, paths to methods and to
\* constants, a path that is the start of others, and `__init__` as an object
ExcludedUniverse ==
    {Ident("MODULE_CONST"),
     Ident("failed_method"),
     S(<<"FirstClass", DOT, "failed_method">>),
     S(<<"FirstClass", DOT, "first_class_const">>),
     S(<<"FirstClass", DOT, "SecondClass">>),
     S(<<"FirstClass", DOT, "SecondClass", DOT, "second_class_const">>),
     S(<<"FirstClass", DOT, "SecondClass", DOT, "second_success_method">>),
     Real(<<"InitCase", "__init__">>)}

ExcludedSelections ==
    {sel \in SUBSET ExcludedUniverse : Cardinality(sel) <= MaxExcluded}

\* the stand-ins on the chain of the target, mocked_module first
ChainStandIns(func) ==
    {SpecMock(SubSeq(func.p, 1, k)) : k \in 0..(Len(func.p) - 1)}

\* names no declaration of the module defines: InitCase.__init__ sets them on
\* the instance
InstanceAttributes == {"x", "y"}

\* the with-body assigns an attribute of a stand-in (`op.args.self.x = Mock()`)
BodyAssign(owner, name, value) ==
    /\ pc = "body"
    /\ UNCHANGED <<argVars, classVars>>
    /\ Cardinality(bodyAssigned) < MaxAssigned
    /\ store' = SetAttr(store, owner, name, value)
    /\ bodyAssigned' = bodyAssigned \cup {<<owner, name>>}
    /\ UNCHANGED <<pc, kind, self, applied, undone, dto, invoked, bodyExc,
                   raised, capturing, captureEnds, bodyDeleted, calls>>

NextExclusions ==
    \/ /\ pc = "new"
       /\ \E func \in ExcludedTargets, exclude_set \in ExcludedSelections :
            New("OnePatch", func, {}, exclude_set)
    \/ EnterOnePatch
    \/ /\ pc = "body"
       /\ \E owner \in ChainStandIns(self._func), name \in InstanceAttributes :
            BodyAssign(owner, name, ArgMock(name))
    \/ /\ pc = "body"
       /\ \E e \in BodyEnds : ExitWith(e)

SpecExclusions == Init /\ [][NextExclusions]_vars

-----------------------------------------------------------------------------
(* A second engine, constructed after a first one was constructed or run. *)

ClassKinds == {"OnePatch", "Ocl"}

ClassTargets ==
    {Real(<<"success_function">>), Real(<<"FirstClass", "success_method">>)}

ClassIncludeUniverse == {Ident("type"), Ident("MODULE_CONST")}

\* a bare name, a path, a method as an object, and an object that has no
\* qualified name
ClassExcludeUniverse ==
    {Ident("id"), S(<<"FirstClass", DOT, "failed_method">>),
     Real(<<"FirstClass", "failed_method">>), Real(<<"logger">>)}

ClassSelections ==
    {sel \in (SUBSET ClassIncludeUniverse) \X (SUBSET ClassExcludeUniverse) :
        Cardinality(sel[1]) + Cardinality(sel[2]) <= MaxSelectors}

\* k(func, include_set=..., exclude_set=...) once more, while the first engine
\* exists
NewAfterwards(k, func, include_set, exclude_set) ==
    /\ pc \in {"constructed", "ctor_raised", "enter_raised", "exited"}
    /\ later = None
    /\ LET r == Construct(k, func, include_set, exclude_set)
       IN  /\ later' = [obj |-> r.obj, err |-> r.err, k |-> k,
                        include_set |-> include_set,
                        exclude_set |-> exclude_set]
           /\ klass' = r.cls
    /\ UNCHANGED <<sessionVars, argVars>>

NextClass ==
    \/ /\ pc = "new"
       /\ \E k \in ClassKinds, func \in ClassTargets, sel \in ClassSelections :
            New(k, func, sel[1], sel[2])
    \/ EnterOnePatch
    \/ EnterOcl
    \/ /\ pc = "body"
       /\ \E e \in BodyEnds : ExitWith(e)
    \/ \E k \in ClassKinds, sel \in ClassSelections :
            NewAfterwards(k, self._func, sel[1], sel[2])

SpecClass == Init /\ [][NextClass]_vars

-----------------------------------------------------------------------------
(* Sessions of OnePatch whose sets may name the target, on an engine object
   that the caller enters a second time after it was exited. *)

SessionTargets ==
    {Real(<<"success_function">>),
     Real(<<"FirstClass", "success_method">>),
     Bound(<<"FirstClass", "success_class_method">>)}

\* the name of a target, the class of the others, a constant and a builtin
SessionIncludeUniverse ==
    {Ident("success_function"), Ident("FirstClass"), Ident("MODULE_CONST"),
     Ident("type")}

\* a target by name and as an object, a method by path, and a builtin
SessionExcludeUniverse ==
    {Ident("success_function"), Real(<<"success_function">>),
     S(<<"FirstClass", DOT, "failed_method">>), Ident("id")}

SessionSelections ==
    {sel \in (SUBSET SessionIncludeUniverse) \X (SUBSET SessionExcludeUniverse) :
        Cardinality(sel[1]) + Cardinality(sel[2]) <= MaxSelectors}

\* OnePatch.__enter__ on an engine that was entered and exited before
Reenter ==
    /\ pc = "exited"
    /\ UNCHANGED <<argVars, classVars>>
    /\ kind = "OnePatch"
    /\ \E incOrder \in Orders(EffectiveInclude(self)),
          excOrder \in Orders(AllExclude(self)) :
        \E r \in {OnePatchEnter(self, store, applied, incOrder, excOrder)} :
            /\ Isolated(r)
            /\ raised' = r.machine.err
            /\ pc' = IF Failed(r.machine) THEN "reenter_raised" ELSE "reentered"
    /\ UNCHANGED <<kind, undone, invoked, bodyExc, capturing, captureEnds,
                   bodyDeleted, bodyAssigned, calls>>

\* the second with statement ends: its body returned and __exit__ runs
ExitReentered ==
    /\ pc = "reentered"
    /\ UNCHANGED <<argVars, classVars>>
    /\ \E stopped \in StoppedExit : DoExit(stopped, "none")
    /\ pc' = "reexited"
    /\ UNCHANGED <<kind, applied, dto, invoked, bodyExc, bodyDeleted,
                   bodyAssigned, calls>>

NextSessions ==
    \/ /\ pc = "new"
       /\ \E func \in SessionTargets, sel \in SessionSelections :
            New("OnePatch", func, sel[1], sel[2])
    \/ EnterOnePatch
    \/ /\ pc = "body"
       /\ \E e \in BodyEnds : ExitWith(e)
    \/ Reenter
    \/ ExitReentered

SpecSessions == Init /\ [][NextSessions]_vars

-----------------------------------------------------------------------------
(* The properties. *)

\* C1 (round trip): when __enter__ succeeded and __exit__ has then run, with
\* a body that deleted nothing itself, every attribute of the module is the
\* object it was before entry, every attribute entry created is gone again,
\* and the same holds for every other location a patch touched, however many
\* patches there were.
C1_RoundTrip ==
    (pc = "exited" /\ bodyDeleted = {}) =>
        /\ \A name \in RootNames :
              GetAttr(store, Real(<<>>), name) = DefaultAttr(Real(<<>>), name)
        /\ \A loc \in DOMAIN store : store[loc] = DefaultAttr(loc[1], loc[2])

\* a session that created `id` in the module, patched nine or more locations
\* and has been exited
C1_Witness ==
    /\ pc = "exited"
    /\ bodyDeleted = {}
    /\ Len(self._patchers) >= 9
    /\ \E i \in DOMAIN self._patchers :
          /\ self._patchers[i].target = Real(<<>>)
          /\ self._patchers[i].create
          /\ self._patchers[i].temp_original = Missing

\* C2 (order of reversal): __enter__ applies the root swap, then the blanket
\* replacements, then the include replacements, then the exclusion
\* re-installations, recording each in self._patchers as it is applied;
\* __exit__ reverses them one at a time from the last recorded to the first,
\* and reverses all of them when it returns, whether the body returned or
\* raised.
C2_ReverseOrder ==
    LET n == Len(self._patchers)
        rank == [ph \in {"root", "blanket", "include", "exclude"} |->
                    CASE ph = "root" -> 0 [] ph = "blanket" -> 1
                      [] ph = "include" -> 2 [] OTHER -> 3]
    IN  /\ Len(applied) = n
        /\ \A i \in 1..n :
              applied[i] = <<self._patchers[i].target, self._patchers[i].attribute>>
        /\ \A i \in 1..n : \A j \in i..n :
              rank[self._patchers[i].ph] <= rank[self._patchers[j].ph]
        /\ \A i \in 1..n : self._patchers[i].ph = "root" <=> i = 1
        /\ Len(undone) <= n
        /\ \A k \in 1..Len(undone) : undone[k] = n - k + 1
        /\ (pc = "exited" /\ raised = bodyExc) => Len(undone) = n

\* a body that raised, left through an __exit__ that reversed patches of all
\* four phases
C2_Witness ==
    /\ pc = "exited"
    /\ bodyExc = "BodyError"
    /\ raised = "BodyError"
    /\ Len(undone) = Len(self._patchers)
    /\ \A ph \in {"root", "blanket", "include", "exclude"} :
          \E i \in DOMAIN self._patchers : self._patchers[i].ph = ph

\* C3 (idempotent teardown): a second __exit__ after a completed session
\* raises nothing, reverses nothing again and changes no declaration.
C3_SecondExitNoOp ==
    [][(pc = "exited" /\ raised = bodyExc /\ bodyDeleted = {} /\ pc' = "exited2")
          => (raised' = "none" /\ undone' = undone /\ store' = store)]_vars

\* C4 (all reversals attempted): when __exit__ raised because one reversal
\* failed, every other recorded substitution has been reversed.
C4_AllReversalsAttempted ==
    (pc = "exited" /\ raised = "AttributeError") =>
        Cardinality({i \in DOMAIN self._patchers : self._patchers[i].started}) <= 1

\* C5 (teardown when the invocation raises): when op.c(*op.args) inside
\* Oc.__enter__ or Ocl.__enter__ raised, whatever it raised, every
\* substitution has been reversed and the log capture of Ocl ended when the
\* exception reaches the caller, and that exception is the one raised.
C5_TeardownOnEveryRaise ==
    (kind \in {"Oc", "Ocl"} /\ pc = "enter_raised" /\ invoked # "none") =>
        /\ \A i \in DOMAIN self._patchers : ~self._patchers[i].started
        /\ ~capturing
        /\ raised = ExceptionOf(invoked)

\* C6 (the caller's exception is never suppressed): when the with-body
\* raised, __exit__ has reversed the substitutions and the exception that
\* reaches the caller is the one the body raised.
C6_BodyErrorPropagates ==
    (pc = "exited" /\ bodyExc = "BodyError") =>
        /\ raised = "BodyError"
        /\ \A i \in DOMAIN self._patchers : ~self._patchers[i].started

\* C7 (exclusion precedence): the location named by a selector that is in the
\* include set and also in the exclude set, as a bare name, as a dotted path
\* or as the qualified name of an excluded object, holds what it held before
\* the session, in every state of the session.
C7_ExclusionPrecedence ==
    \A sel \in self._include_set \cap
               (self._exclude_identifier_set \cup self._exclude_path_set
                  \cup self._exclude_object_path_set) :
        LET names == Split(sel)
            parent == Real(Front(names))
        IN  GetAttr(store, parent, Last(names)) = DefaultAttr(parent, Last(names))

\* a session in its body whose include set holds a dotted path that is also
\* excluded, the exclusion having been installed on the chain stand-in
C7_Witness ==
    /\ pc = "body"
    /\ \E sel \in self._include_set \cap
                  (self._exclude_path_set \cup self._exclude_object_path_set) :
          HasDot(sel)
    /\ \E i \in DOMAIN self._patchers : self._patchers[i].ph = "exclude"

\* C8 as stated (path-traversal preservation): in the body of a session every
\* class on the chain from the module to the target is, read through the
\* module, the real class, and no attribute of the module is the stand-in of
\* such a class.
C8_ChainRealInModule ==
    pc = "body" =>
        \A k \in 1..(Len(self._func.p) - 1) :
            LET prefix == SubSeq(self._func.p, 1, k)
            IN  /\ GetAttrByPath(store, Real(<<>>), prefix) = Real(prefix)
                /\ \A name \in RootNames :
                      GetAttr(store, Real(<<>>), name) # SpecMock(prefix)

\* C8 as amended: the same, for sessions whose include set, less the
\* exclusions, names no class on the chain.
C8_ChainRealUnlessIncluded ==
    (/\ pc = "body"
     /\ \A k \in 1..(Len(self._func.p) - 1) :
           S(JoinTokens(SubSeq(self._func.p, 1, k))) \notin EffectiveInclude(self))
    => \A k \in 1..(Len(self._func.p) - 1) :
            LET prefix == SubSeq(self._func.p, 1, k)
            IN  /\ GetAttrByPath(store, Real(<<>>), prefix) = Real(prefix)
                /\ \A name \in RootNames :
                      GetAttr(store, Real(<<>>), name) # SpecMock(prefix)

\* a session in its body on a method of a class nested in a class, with the
\* other classes of the module replaced
C8_Witness ==
    /\ pc = "body"
    /\ Len(self._func.p) = 3
    /\ \A k \in 1..2 :
          S(JoinTokens(SubSeq(self._func.p, 1, k))) \notin EffectiveInclude(self)
    /\ GetAttr(store, Real(<<>>), "InitCase") = SpecMock(<<"InitCase">>)

\* C9 (blanket replacement): in the body of a session every identifier of the
\* module's __dict__ that meets none of the skip conditions is a stand-in and
\* is the object the root stand-in has under the same name, constants
\* included.
C9_BlanketReplacement ==
    pc = "body" =>
        LET patching_list == get_patching_list(store, self._func, SpecMock(<<>>))
        IN  \A i \in DOMAIN ModuleDict :
                LET identifier == ModuleDict[i]
                    declared == DefaultAttr(Real(<<>>), identifier)
                    current == GetAttr(store, Real(<<>>), identifier)
                IN  ~SkipIdentifier(self, identifier, declared, patching_list)
                    => /\ IsStandIn(current)
                       /\ current = GetAttr(store, SpecMock(<<>>), identifier)

\* C10 (exception classes are exempt): no blanket replacement ever replaces
\* an exception class of the module, for any target, and such a class is
\* something else than itself in the module only when the include set, less
\* the exclusions, names it.
C10_ExceptionClassExempt ==
    /\ \A i \in DOMAIN self._patchers :
          self._patchers[i].ph = "blanket"
              => ~IsExceptionClass(self._patchers[i].temp_original)
    /\ \A i \in DOMAIN ModuleDict :
          LET declared == DefaultAttr(Real(<<>>), ModuleDict[i])
          IN  (/\ IsExceptionClass(declared)
               /\ GetAttr(store, Real(<<>>), ModuleDict[i]) # declared)
              => Ident(ModuleDict[i]) \in EffectiveInclude(self)

\* a session in its body in which the blanket replacement replaced the
\* functions and classes of the module and left its exception class real
C10_Witness ==
    /\ pc = "body"
    /\ GetAttr(store, Real(<<>>), "SomeException") = Real(<<"SomeException">>)
    /\ GetAttr(store, Real(<<>>), "failed_function") = SpecMock(<<"failed_function">>)
    /\ \E i \in DOMAIN self._patchers : self._patchers[i].ph = "blanket"

\* C11 (binding of an instance method): in the body of a session whose
\* target is a method declared in a class, slot 0 of the argument container
\* is the stand-in of the enclosing class, whatever the first parameter is
\* called; every other slot holds a stand-in made for its parameter; and each
\* slot is read both by its index and by the name of its parameter.
C11_MethodBinding ==
    (pc = "body" /\ self._func.t = "real" /\ KindOf(self._func.p) = "method") =>
        LET params == Params[self._func.p]
            args == dto.args
        IN  /\ Len(args.items) = Len(params)
            /\ args.items[1] = SpecMock(Front(self._func.p))
            /\ \A i \in 2..Len(params) : args.items[i] = ArgMock(params[i])
            /\ \A i \in 1..Len(params) :
                  ArgsKwargs__getattr__(args, params[i]) = args.items[i]

\* C12 (binding of a class method): in the body of a session whose target
\* is a class method, the callable of the bundle is the function under the
\* bound method, slot 0 of the argument container is the stand-in of the
\* enclosing class and is read as args.cls, and the parameters after the
\* class get one stand-in each, in the order of declaration, so that there is
\* one slot for every parameter of the function.
C12_ClassMethodBinding ==
    (pc = "body" /\ self._func.t = "bound") =>
        LET params == Params[self._func.p]
            args == dto.args
        IN  /\ dto.c = Real(self._func.p)
            /\ Len(args.items) = Len(params)
            /\ args.items[1] = SpecMock(Front(self._func.p))
            /\ ArgsKwargs__getattr__(args, "cls") = args.items[1]
            /\ \A i \in 2..Len(params) :
                  /\ args.items[i] = ArgMock(params[i])
                  /\ ArgsKwargs__getattr__(args, params[i]) = args.items[i]

\* a session on the class method of FirstClass, in its body, with two slots
C12_Witness ==
    /\ pc = "body"
    /\ self._func = Bound(<<"FirstClass", "success_class_method">>)
    /\ Len(dto.args.items) = 2
    /\ dto.args.items[1] = SpecMock(<<"FirstClass">>)

\* C13 (binding of a plain function or static method): in the body of a
\* session whose target is a module-level function or a static method, every
\* declared parameter has a slot holding a stand-in made for it, and no slot
\* holds the stand-in of an enclosing class, whatever the parameters are
\* called.
C13_UnboundBinding ==
    (pc = "body" /\ self._func.t = "real"
       /\ KindOf(self._func.p) \in {"func", "static"}) =>
        LET params == Params[self._func.p]
            args == dto.args
        IN  /\ Len(args.items) = Len(params)
            /\ \A i \in 1..Len(params) :
                  /\ args.items[i] = ArgMock(params[i])
                  /\ args.items[i].t # "spec"

\* C14 (iteration of the bundle): iterating the bundle that OnePatch.__enter__
\* (and Ol.__enter__, which returns the same) gave yields four items: the
\* bundle, its callable, its argument container, and the stand-in in the
\* first slot when the target is a method or class method, None when it is a
\* static method or a plain function.
C14_BundleIteration ==
    (pc = "body" /\ kind \in {"OnePatch", "Ol"}) =>
        LET items == OnePatchDTO__iter__(dto)
            unbound == /\ self._func.t = "real"
                       /\ KindOf(self._func.p) \in {"func", "static"}
        IN  /\ Len(items) = 4
            /\ items[1] = dto
            /\ items[2] = dto.c
            /\ items[3] = dto.args
            /\ items[4] = IF unbound THEN None ELSE dto.args.items[1]

\* C15 (two keys, one entry): in the body of a session, for every excluded
\* path that names a callable, given as a dotted string or as the object, the
\* exclusion table has the path string and the object as keys and both give
\* the same entry.
C15_DualKeying ==
    pc = "body" =>
        \A exclude_path \in AllExclude(self) :
            LET exclude_object ==
                    GetAttrByPath(store, Real(<<>>), Split(exclude_path))
            IN  IsCallable(exclude_object) =>
                    /\ HasKey(dto.exclusions, exclude_path)
                    /\ HasKey(dto.exclusions, exclude_object)
                    /\ dto.exclusions[exclude_path] = dto.exclusions[exclude_object]

\* C16 (every exclusion is recorded): in the body of a session the exclusion
\* table of the bundle has an entry under every resolved exclusion path, for
\* every sort of target.
C16_EveryExclusionRecorded ==
    pc = "body" =>
        \A exclude_path \in AllExclude(self) :
            HasKey(dto.exclusions, exclude_path)

\* C17 (short exclusion path): a session with a resolved exclusion path of
\* fewer than two segments never reaches its body, and when __enter__ has
\* raised the configuration error for it no substitution is applied: nothing
\* differs from its value before entry.
C17_ShortPathBeforeSubstitution ==
    /\ pc = "body" => \A exclude_path \in AllExclude(self) :
                         Len(Split(exclude_path)) >= 2
    /\ (pc = "enter_raised" /\ raised = "ValueError") =>
          /\ \A i \in DOMAIN self._patchers : ~self._patchers[i].started
          /\ \A loc \in DOMAIN store : store[loc] = DefaultAttr(loc[1], loc[2])

\* C18 (excluded object without a qualified name): the constructor raises
\* the configuration error exactly when the exclude set holds an object that
\* has no qualified name; the session then never enters, and no substitution
\* is recorded or applied.
C18_NoQualnameRaisesAtConstruction ==
    LET unnamed == \E x \in self._exclude_set : ~IsStr(x) /\ LacksQualname(x)
    IN  /\ unnamed =>
              /\ pc = "ctor_raised"
              /\ raised = "ValueError"
              /\ self._patchers = <<>>
              /\ applied = <<>>
              /\ \A loc \in DOMAIN store : store[loc] = DefaultAttr(loc[1], loc[2])
        /\ pc = "ctor_raised" => unnamed

\* the constructor has raised for an exclude set that holds the logger object
C18_Witness ==
    /\ pc = "ctor_raised"
    /\ raised = "ValueError"
    /\ Real(<<"logger">>) \in self._exclude_set

\* C19 (ArgsKwargs, distinct names): after add_argument calls with pairwise
\* distinct names on a new container there is one slot per registered name,
\* the names have the indices 0..n-1 in the order they were added, the slots
\* hold the values in the order they were added, reading a name gives the
\* object in the slot of its index, and writing a name changes that slot and
\* nothing else; for every name.
C19_DistinctNames ==
    (\A i, j \in DOMAIN adds : adds[i][1] = adds[j][1] => i = j) =>
        /\ Len(akw.items) = Len(adds)
        /\ Cardinality(ArgumentNamesOf(akw._index_map)) = Len(adds)
        /\ \A i \in DOMAIN adds :
              /\ akw._index_map[adds[i][1]] = i - 1
              /\ akw.items[i] = adds[i][2]
              /\ ReadAttr(akw, adds[i][1]) = akw.items[i]
              /\ \A value \in ArgumentValues :
                    ArgsKwargs__setattr__(akw, adds[i][1], value) =
                        [a |-> [akw EXCEPT !.items[i] = value], err |-> "none"]

\* C20 (ArgsKwargs, repeated names): after any add_argument calls every value
\* added is in the list, in the order added, and reading a registered name
\* through the table gives the value of the latest add_argument for that
\* name.
C20_RepeatedNames ==
    /\ Len(akw.items) = Len(adds)
    /\ \A i \in DOMAIN adds : akw.items[i] = adds[i][2]
    /\ \A i \in DOMAIN adds :
          (\A j \in DOMAIN adds : adds[j][1] = adds[i][1] => j <= i)
              => ArgsKwargs__getattr__(akw, adds[i][1]) = adds[i][2]

\* C21 (ArgsKwargs, unregistered name): reading a name that was never
\* registered raises AttributeError, writing it raises AttributeError too,
\* and the write leaves the list, the table and the object as they were.
C21_UnregisteredName ==
    \A name \in AccessNames \ ArgumentNamesOf(akw._index_map) :
        /\ ReadAttr(akw, name) = Missing
        /\ \A value \in ArgumentValues :
              ArgsKwargs__setattr__(akw, name, value) =
                  [a |-> akw, err |-> "AttributeError"]

\* C22 (autospec contract): in the body of a session, reading from a
\* stand-in on the chain of the target (args.self among them) an attribute
\* that the declaration does not define raises AttributeError, and once the
\* body has assigned that attribute on the stand-in the read gives the object
\* assigned.
C22_AutoSpecContract ==
    pc = "body" =>
        \A owner \in ChainStandIns(self._func), name \in InstanceAttributes :
            GetAttr(store, owner, name) =
                IF <<owner, name>> \in bodyAssigned THEN ArgMock(name)
                ELSE Missing

\* the body of a session on a method of InitCase has assigned x on args.self,
\* and y is still undefined there
C22_Witness ==
    /\ pc = "body"
    /\ self._func = Real(<<"InitCase", "use_attrs_inited_in__init">>)
    /\ <<ArgsKwargs__getattr__(dto.args, "self"), "x">> \in bodyAssigned
    /\ GetAttr(store, SpecMock(<<"InitCase">>), "x") = ArgMock("x")
    /\ GetAttr(store, SpecMock(<<"InitCase">>), "y") = Missing

\* C23 (Oc on success): when Oc.__enter__ has returned, op.c(*op.args) has
\* been called exactly once, on the bundle of the isolation and with every
\* substitution of the isolation applied, and none has been reversed; the
\* bundle returned has the value the call returned as r, and the callable,
\* the argument container and the exclusion table of the isolation; iterating
\* it yields r, the bundle, the callable, the argument container and the
\* fourth item of the plain bundle.
C23_OcSuccess ==
    (kind = "Oc" /\ pc = "body") =>
        /\ Len(calls) = 1
        /\ calls[1].started = DOMAIN self._patchers
        /\ \A i \in DOMAIN self._patchers : self._patchers[i].started
        /\ undone = <<>>
        /\ calls[1].op.c = _get_args_and_callable(self._func, <<>>).c
        /\ dto.r = Result(calls[1].op.c)
        /\ dto.c = calls[1].op.c
        /\ dto.args = calls[1].op.args
        /\ dto.exclusions = calls[1].op.exclusions
        /\ ResultOnePatchDTO__iter__(dto) =
              <<dto.r, dto, dto.c, dto.args, OnePatchDTO__iter__(calls[1].op)[4]>>

\* Oc.__enter__ has returned a bundle for a method, with an exclusion
\* recorded in its table
C23_Witness ==
    /\ kind = "Oc"
    /\ pc = "body"
    /\ invoked = "ok"
    /\ dto.r = Result(Real(<<"FirstClass", "success_method">>))
    /\ HasKey(dto.exclusions, S(<<"FirstClass", DOT, "failed_method">>))

\* C24 (bare name in the exclude set): in every state of a session, the
\* attribute of the module under a bare name of the exclude set is what it
\* was before the session (absent when the module has no such attribute), no
\* patcher of the session is for it, the include set less the exclusions
\* does not hold the name, the default `id` included, and the exclusion table
\* has no entry under it.
C24_BareNameExcluded ==
    \A name \in self._exclude_identifier_set :
        /\ GetAttr(store, Real(<<>>), name.p[1]) = DefaultAttr(Real(<<>>), name.p[1])
        /\ \A i \in DOMAIN self._patchers :
              <<self._patchers[i].target, self._patchers[i].attribute>>
                  # <<Real(<<>>), name.p[1]>>
        /\ name \notin EffectiveInclude(self)
        /\ pc = "body" => ~HasKey(dto.exclusions, name)

\* a session in its body that excluded `id` and MODULE_CONST: the module has
\* no `id`, its constant is real, and its functions are replaced
C24_Witness ==
    /\ pc = "body"
    /\ self._exclude_identifier_set = {Ident("id"), Ident("MODULE_CONST")}
    /\ GetAttr(store, Real(<<>>), "id") = Missing
    /\ GetAttr(store, Real(<<>>), "MODULE_CONST") = Real(<<"MODULE_CONST">>)
    /\ GetAttr(store, Real(<<>>), "failed_function") = SpecMock(<<"failed_function">>)

\* C25 (bare name at any level): in the body of a session, a member whose
\* name is a bare name of the exclude set is the real member wherever it is
\* declared: in the module, and in the stand-in of every class on the chain
\* of the target.
C25_BareNameAnyLevel ==
    pc = "body" =>
        \A name \in self._exclude_identifier_set :
            /\ GetAttr(store, Real(<<>>), name.p[1])
                  = DefaultAttr(Real(<<>>), name.p[1])
            /\ \A owner \in ChainStandIns(self._func) \ {SpecMock(<<>>)} :
                  IsDeclared(Append(owner.p, name.p[1])) =>
                      GetAttr(store, owner, name.p[1])
                          = DefaultAttr(Real(owner.p), name.p[1])

\* C26 (intermediate segments of an exclusion path): in the body of a
\* session whose target is declared in a class, for every resolved exclusion
\* path and every segment of it but the last: when the stand-in at that
\* segment is the stand-in of the chain at that depth, no exclusion patcher
\* is for that position; otherwise that position of the stand-in tree holds
\* the original real object, through which the walk went on.
C26_IntermediateSegments ==
    (pc = "body" /\ Len(self._func.p) >= 2) =>
        \A exclude_path \in AllExclude(self) :
            LET exclude_identifiers == Split(exclude_path)
                chain == Front(self._func.p)
            IN  \A k \in 1..(Len(exclude_identifiers) - 1) :
                    LET prefix == SubSeq(exclude_identifiers, 1, k)
                        position == <<SpecMock(Front(prefix)), Last(prefix)>>
                    IN  IF k <= Len(chain) /\ prefix = SubSeq(chain, 1, k)
                        THEN \A i \in DOMAIN self._patchers :
                                self._patchers[i].ph = "exclude" =>
                                    <<self._patchers[i].target,
                                      self._patchers[i].attribute>> # position
                        ELSE GetAttrByPath(store, SpecMock(<<>>), prefix)
                                = Real(prefix)

\* C27 (final segment of an exclusion path): in the body of a session, for
\* every resolved exclusion path of two or more segments, the stand-in tree
\* read along the path gives the original real object at the final segment;
\* for a path that ends in `__init__` the original is under `m__init__` of the
\* parent instead, and the exclusion table has the path and the original
\* object as keys.
C27_FinalSegment ==
    pc = "body" =>
        \A exclude_path \in AllExclude(self) :
            LET exclude_identifiers == Split(exclude_path)
                original == DefaultAttr(Real(Front(exclude_identifiers)),
                                        Last(exclude_identifiers))
            IN  Len(exclude_identifiers) >= 2 =>
                    /\ GetAttrByPath(store, SpecMock(<<>>),
                          Append(Front(exclude_identifiers),
                                 InstallName(Last(exclude_identifiers))))
                            = original
                    /\ Last(exclude_identifiers) = "__init__" =>
                          /\ HasKey(dto.exclusions, exclude_path)
                          /\ HasKey(dto.exclusions, original)

\* C28 (arguments of an excluded method): in the body of a session, the
\* entry of the exclusion table for an excluded method has the stand-in of
\* the class that declares the method in its first slot, read as args.self;
\* when that class is the class that declares the target, the slot holds the
\* very object the target's args.self is.
C28_ExcludedMethodSelf ==
    pc = "body" =>
        \A exclude_path \in AllExclude(self) :
            LET exclude_identifiers == Split(exclude_path)
            IN  (/\ HasKey(dto.exclusions, exclude_path)
                 /\ KindOf(exclude_identifiers) = "method") =>
                    LET args == dto.exclusions[exclude_path].args
                    IN  /\ args.items[1] = SpecMock(Front(exclude_identifiers))
                        /\ ArgsKwargs__getattr__(args, "self") = args.items[1]
                        /\ Front(exclude_identifiers) = Front(self._func.p) =>
                              args.items[1] = ArgsKwargs__getattr__(dto.args, "self")

\* C29 (entry of a non-callable exclusion): in the body of a session, every
\* excluded path that names a non-callable value has an entry in the
\* exclusion table under the path string, the entry is a value-only entry
\* that holds the original object, the object itself is no key, and no key of
\* the table is a non-callable object.
C29_NonCallableEntry ==
    pc = "body" =>
        /\ \A exclude_path \in AllExclude(self) :
              LET exclude_identifiers == Split(exclude_path)
                  original == DefaultAttr(Real(Front(exclude_identifiers)),
                                          Last(exclude_identifiers))
              IN  (Len(exclude_identifiers) >= 2 /\ ~IsCallable(original)) =>
                      /\ HasKey(dto.exclusions, exclude_path)
                      /\ dto.exclusions[exclude_path] = [o |-> original]
                      /\ ~HasKey(dto.exclusions, original)
        /\ \A key \in DOMAIN dto.exclusions : IsStr(key) \/ IsCallable(key)

\* what a caller can see of the declarations and of the stand-in tree: for
\* every declared path, the object read along it from the module and the
\* object read along it from mocked_module
TreeView(st) ==
    [p \in DOMAIN Declared |->
        <<GetAttrByPath(st, Real(<<>>), p), GetAttrByPath(st, SpecMock(<<>>), p)>>]

\* C30 (order independence of exclusions): whatever the order in which
\* __enter__ takes the resolved exclusion paths, it returns, the declarations
\* and the stand-in tree hold the same objects after it, and the exclusion
\* table has the same content; and the declarations and the tree hold the
\* same objects after __exit__.
C30_ExclusionOrderIndependent ==
    (pc \in {"body", "exited"} /\ bodyAssigned = {} /\ bodyDeleted = {}) =>
        \A incOrder \in Orders(EffectiveInclude(self)),
           excOrder \in Orders(AllExclude(self)) :
            LET r == OnePatchEnter([self EXCEPT !._patchers = <<>>],
                                   (<<Fake, "tm">> :> Real(<<>>)), <<>>,
                                   incOrder, excOrder)
                x == OnePatchExit([self EXCEPT !._patchers = r.machine.patchers],
                                  r.machine.store, <<>>, "raise")
            IN  /\ ~Failed(r.machine)
                /\ pc = "body" =>
                      /\ TreeView(r.machine.store) = TreeView(store)
                      /\ r.dto.exclusions = dto.exclusions
                /\ pc = "exited" => TreeView(x.store) = TreeView(store)

\* C31 (include processing): in the body of a session, the location named by
\* every selector of the include set less the exclusions holds a stand-in;
\* every substitution of the include phase installed a new stand-in, creating
\* the attribute when there was none, at a location that did not hold a
\* stand-in; and a location that held a stand-in has no substitution of the
\* include phase.
C31_IncludeProcessing ==
    (pc = "body" /\ bodyDeleted = {}) =>
        /\ \A sel \in EffectiveInclude(self) :
              IsStandIn(GetAttrByPath(store, Real(<<>>), Split(sel)))
        /\ \A i \in DOMAIN self._patchers :
              self._patchers[i].ph = "include" =>
                  /\ self._patchers[i].new.t = "fresh"
                  /\ self._patchers[i].create
                  /\ ~IsStandIn(self._patchers[i].temp_original)

\* C32 (names that start with a double underscore): in the body of a
\* session, an identifier of the module whose name starts with `__` is
\* replaced by the blanket phase, by the object mocked_module has under that
\* name, when the include set holds the name and no exclusion names it;
\* otherwise it is what it was before the session and no patcher is for it.
C32_DunderSkipped ==
    pc = "body" =>
        \A k \in DOMAIN ModuleDict :
            LET identifier == ModuleDict[k]
                current == GetAttr(store, Real(<<>>), identifier)
                mine == {i \in DOMAIN self._patchers :
                            /\ self._patchers[i].target = Real(<<>>)
                            /\ self._patchers[i].attribute = identifier}
            IN  identifier \in Dunder =>
                    IF /\ Ident(identifier) \in self._include_set
                       /\ Ident(identifier) \notin self._exclude_identifier_set
                    THEN /\ IsStandIn(current)
                         /\ current = GetAttr(store, SpecMock(<<>>), identifier)
                         /\ \A i \in mine : self._patchers[i].ph = "blanket"
                         /\ mine # {}
                    ELSE /\ current = DefaultAttr(Real(<<>>), identifier)
                         /\ mine = {}

\* a session in its body whose include set holds `__name__`: the module's
\* `__name__` is a stand-in, put there by the blanket phase
C32_Witness ==
    /\ pc = "body"
    /\ Ident("__name__") \in self._include_set
    /\ GetAttr(store, Real(<<>>), "__name__") = SpecMock(<<"__name__">>)
    /\ \E i \in DOMAIN self._patchers :
          /\ self._patchers[i].ph = "blanket"
          /\ self._patchers[i].attribute = "__name__"

\* C33 (the target stays real): from the end of __enter__ to __exit__, every
\* identifier of the module that was bound to the target before the session
\* is still bound to it, and the callable of the bundle is the target, or the
\* function under it when the target is a class method, and no stand-in.
C33_TargetStaysReal ==
    pc = "body" =>
        /\ \A k \in DOMAIN ModuleDict :
              DefaultAttr(Real(<<>>), ModuleDict[k]) = self._func
                  => GetAttr(store, Real(<<>>), ModuleDict[k]) = self._func
        /\ dto.c = Real(self._func.p)
        /\ ~IsStandIn(dto.c)

\* C33 as amended: the blanket phase never replaces an identifier of the
\* module that is bound to the target, the identifier is something else than
\* the target in the body only when the include set, less the exclusions,
\* names it, and the callable of the bundle is the target, or the function
\* under it when the target is a class method, and no stand-in.
C33_TargetRealUnlessIncluded ==
    /\ \A i \in DOMAIN self._patchers :
          self._patchers[i].ph = "blanket"
              => self._patchers[i].temp_original # self._func
    /\ pc = "body" =>
        /\ \A k \in DOMAIN ModuleDict :
              (/\ DefaultAttr(Real(<<>>), ModuleDict[k]) = self._func
               /\ Ident(ModuleDict[k]) \notin EffectiveInclude(self))
                  => GetAttr(store, Real(<<>>), ModuleDict[k]) = self._func
        /\ dto.c = Real(self._func.p)
        /\ ~IsStandIn(dto.c)

\* a session on the module-level function, in its body, whose include set
\* does not name the function: the module still has the function itself,
\* while other functions of the module are stand-ins
C33_Witness ==
    /\ pc = "body"
    /\ self._func = Real(<<"success_function">>)
    /\ Ident("success_function") \notin self._include_set
    /\ GetAttr(store, Real(<<>>), "success_function") = self._func
    /\ IsStandIn(GetAttr(store, Real(<<>>), "failed_function"))
    /\ dto.c = self._func

\* C34 (call order of Ol and Ocl): the log capture is running only when the
\* isolation was completed before it began, so that no capture runs after an
\* __enter__ whose isolation raised; once __exit__ has run, the capture is
\* ended, whether the reversal then raised or not; and the capture is ended
\* at most once, however often __exit__ runs.
C34_CaptureOrder ==
    kind \in {"Ol", "Ocl"} =>
        /\ capturing => (pc = "body" \/ invoked # "none")
        /\ pc \in {"exited", "exited2"} => (~capturing /\ captureEnds = 1)
        /\ captureEnds <= 1

\* C35 (an __enter__ that raises during the isolation): when __enter__ of
\* OnePatch, Ol, Oc or Ocl has raised before the callable was called and after
\* one substitution or more was applied, every name of the module is bound to
\* what it was bound to before entry, and a name the module did not have is
\* absent again.
C35_RaisingEnterRestores ==
    (pc = "enter_raised" /\ invoked = "none" /\ Len(applied) > 0) =>
        \A name \in RootNames :
            GetAttr(store, Real(<<>>), name) = DefaultAttr(Real(<<>>), name)

\* C36 (one engine object used twice): in the body of the second session
\* self._patchers holds the patchers of that session only, all of them
\* started; and when the second __exit__ has run, every location a patch
\* touched is what it was before the first entry, and every patcher of both
\* sessions was reversed exactly once.
C36_EngineReuse ==
    /\ pc = "reentered" =>
          \A i \in DOMAIN self._patchers : self._patchers[i].started
    /\ pc = "reexited" =>
          /\ \A loc \in DOMAIN store : store[loc] = DefaultAttr(loc[1], loc[2])
          /\ \A i \in DOMAIN self._patchers :
                Cardinality({k \in DOMAIN undone : undone[k] = i}) = 1

\* the sets an engine derives from its exclude set
ClassificationSets(slf) ==
    <<slf._exclude_identifier_set, slf._exclude_path_set,
      slf._exclude_first_path_identifier_set, slf._exclude_object_set,
      slf._exclude_object_path_set,
      slf._exclude_first_object_path_identifier_set>>

\* C37 (sessions share no state): whatever engines were constructed and run,
\* the sets of the class are its defaults; an OnePatch constructed afterwards
\* with no sets has the include set {`id`}, an empty exclude set and empty
\* classification sets; and two engines whose exclude sets are equal have
\* equal classification sets.
C37_NoSharedState ==
    /\ klass = ClassDefaults
    /\ later # None =>
          /\ (later.k = "OnePatch" /\ later.include_set = {}
                /\ later.exclude_set = {}) =>
                 /\ later.obj._include_set = {Ident("id")}
                 /\ later.obj._exclude_set = {}
                 /\ ClassificationSets(later.obj) = <<{}, {}, {}, {}, {}, {}>>
          /\ later.obj._exclude_set = self._exclude_set =>
                 ClassificationSets(later.obj) = ClassificationSets(self)

\* an OnePatch constructed with no sets after an engine that was given an
\* include set and an excluded path has run and was exited
C37_Witness ==
    /\ pc = "exited"
    /\ Ident("type") \in self._include_set
    /\ self._exclude_path_set # {}
    /\ later # None
    /\ later.k = "OnePatch"
    /\ later.include_set = {}
    /\ later.exclude_set = {}
    /\ later.obj._include_set = {Ident("id")}

\* the parameters the callable c declares: inspect.signature(c).parameters
DeclaredParameters(c) ==
    IF c.t = "real" /\ c.p \in DOMAIN Params THEN Params[c.p] ELSE ParamsOf(c)

\* the container of the bundle d has one slot and one name for every
\* parameter of the callable of d, in the order of declaration
SlotPerParameter(d) ==
    LET params == DeclaredParameters(d.c)
    IN  /\ Len(d.args.items) = Len(params)
        /\ ArgumentNamesOf(d.args._index_map) = Range(params)
        /\ \A i \in 1..Len(params) : d.args._index_map[params[i]] = i - 1

\* C38 (one slot for every parameter): in the body of a session, the
\* argument container of the bundle has as many slots as the callable of the
\* bundle declares parameters, the names of the parameters are registered for
\* the slots in the order of declaration, and the same holds for the entry of
\* every excluded callable in the exclusion table.
C38_SlotsMatchParameters ==
    pc = "body" =>
        /\ SlotPerParameter(dto)
        /\ \A key \in DOMAIN dto.exclusions :
              "args" \in DOMAIN dto.exclusions[key]
                  => SlotPerParameter(dto.exclusions[key])

\* a session on the class method of FirstClass, in its body, that excluded a
\* method of the class: the bundle has two slots for `cls` and the parameter,
\* the entry of the method two slots for `self` and its parameter
C38_Witness ==
    /\ pc = "body"
    /\ self._func = Bound(<<"FirstClass", "success_class_method">>)
    /\ dto.args._index_map["cls"] = 0
    /\ dto.args._index_map["class_method_argument"] = 1
    /\ HasKey(dto.exclusions, S(<<"FirstClass", DOT, "failed_method">>))
    /\ Len(dto.exclusions[S(<<"FirstClass", DOT, "failed_method">>)].args.items) = 2

====
